---- MODULE Spec2Model ----
(***************************************************************************)
(* A model of src/app.py (Summize, a Streamlit paper analyzer): the two   *)
(* PDF extractors, extract_text_from_pdf and extract_key_figures, and the *)
(* analysis workflow that runs when the "start analysis" button is        *)
(* pressed.                                                                *)
(*                                                                         *)
(* A string is a sequence of one-character strings, so that strip, split  *)
(* and the regular expressions work on characters as Python's do.  The    *)
(* four Hangul characters of the third keyword are written by their code   *)
(* points ("U+CC38" is one character).                                    *)
(***************************************************************************)
EXTENDS Naturals, Integers, Sequences, FiniteSets

VARIABLES
    pdf,               \* the decoded document of pdf_bytes: a sequence of pages
    optimize,          \* the optimize argument (apply_optimization in the workflow)
    tpc,               \* extract_text_from_pdf: "idle", "call", "loop", "done"
    tdoc,              \* its Document handle: "none", "open", "closed"
    ti,                \* number of pages the for loop has consumed
    full_text,         \* local full_text
    stop_extraction,   \* local stop_extraction
    fpc,               \* extract_key_figures: "idle", "call", "loop", "image", "done", "raised"
    fdoc,              \* its Document handle: "none", "open", "closed"
    pages_to_process,  \* local pages_to_process, as page numbers of pdf
    fi,                \* enumerate index i of the page loop (0-based)
    text_blocks,       \* local text_blocks of the current page
    images,            \* local images of the current page
    fj,                \* position of the image loop in images (1-based)
    key_figures,       \* local key_figures
    wpc,               \* the workflow's position
    opts,              \* sidebar state: api_key, summarize_paper_option, extract_images_option
    extracted_text,    \* workflow variable extracted_text
    extracted_images,  \* workflow variable extracted_images
    calls              \* downstream functions the workflow has called so far

vars == <<pdf, optimize, tpc, tdoc, ti, full_text, stop_extraction,
          fpc, fdoc, pages_to_process, fi, text_blocks, images, fj, key_figures,
          wpc, opts, extracted_text, extracted_images, calls>>

textVars == <<tpc, tdoc, ti, full_text, stop_extraction>>
figVars  == <<fpc, fdoc, pages_to_process, fi, text_blocks, images, fj, key_figures>>
flowVars == <<wpc, opts, extracted_text, extracted_images, calls>>

(***************************************************************************)
(* Bounds of the checked documents.                                        *)
(***************************************************************************)
MaxPages == 2
MaxFrags == 3
MaxItems == 3

(***************************************************************************)
(* Strings.                                                                *)
(***************************************************************************)
RECURSIVE Flatten(_)
Flatten(ss) == IF ss = <<>> THEN <<>> ELSE Head(ss) \o Flatten(Tail(ss))

Min(S) == CHOOSE m \in S : \A k \in S : m <= k
Max(S) == CHOOSE m \in S : \A k \in S : m >= k

\* The whitespace characters of the checked alphabet (str.strip() with no argument).
IsSpace(c) == c \in {" ", "\n", "\t"}

\* s.strip(): s without its leading and trailing whitespace.
Strip(s) ==
    LET keep == {k \in 1..Len(s) : ~IsSpace(s[k])}
    IN  IF keep = {} THEN <<>> ELSE SubSeq(s, Min(keep), Max(keep))

\* Whether kw occurs in s at position k.
OccursAt(s, k, kw) ==
    /\ k >= 1
    /\ k + Len(kw) - 1 <= Len(s)
    /\ SubSeq(s, k, k + Len(kw) - 1) = kw

\* re.search("^" + re.escape(kw), s, re.MULTILINE): kw at the start of s or
\* right after a newline.
SearchLineStart(kw, s) ==
    \E k \in 1..Len(s) : (k = 1 \/ s[k - 1] = "\n") /\ OccursAt(s, k, kw)

\* s.split(kw)[0]: s up to the first occurrence of kw, all of s when there is none.
SplitHead(s, kw) ==
    LET at == {k \in 1..Len(s) : OccursAt(s, k, kw)}
    IN  IF at = {} THEN s ELSE SubSeq(s, 1, Min(at) - 1)

(***************************************************************************)
(* extract_text_from_pdf.                                                  *)
(***************************************************************************)
References   == <<"R", "e", "f", "e", "r", "e", "n", "c", "e", "s">>
REFERENCES   == <<"R", "E", "F", "E", "R", "E", "N", "C", "E", "S">>
Chamgomunheon == <<"U+CC38", "U+ACE0", "U+BB38", "U+D5CC">>
Bibliography == <<"B", "i", "b", "l", "i", "o", "g", "r", "a", "p", "h", "y">>

reference_keywords == <<References, REFERENCES, Chamgomunheon, Bibliography>>

\* KeywordLoop as it would be if the page text were searched untrimmed.
RECURSIVE KeywordLoopUntrimmed(_, _)
KeywordLoopUntrimmed(k, text) ==
    IF k > Len(reference_keywords) THEN 0
    ELSE IF SearchLineStart(reference_keywords[k], text) THEN k
    ELSE KeywordLoopUntrimmed(k + 1, text)

\* The inner for loop from keyword number k on: the number of the keyword it
\* breaks on, 0 when it runs to the end.
RECURSIVE KeywordLoop(_, _)
KeywordLoop(k, text) ==
    IF k > Len(reference_keywords) THEN 0
    ELSE IF SearchLineStart(reference_keywords[k], Strip(text)) THEN k
    ELSE KeywordLoop(k + 1, text)

\* TextLoopBody as it would be if the keywords were scanned whatever optimize is.
TextLoopBodyAlwaysScans(st, text, opt) ==
    LET hit == IF ~st.stop_extraction THEN KeywordLoop(1, text) ELSE 0
    IN  IF hit # 0
        THEN [full_text |-> st.full_text \o SplitHead(text, reference_keywords[hit]),
              stop_extraction |-> TRUE]
        ELSE IF ~st.stop_extraction
        THEN [full_text |-> st.full_text \o text, stop_extraction |-> FALSE]
        ELSE st

\* TextLoopBody as it would be if the optimize branch always ended in continue.
TextLoopBodyAlwaysContinues(st, text, opt) ==
    LET hit == IF opt /\ ~st.stop_extraction THEN KeywordLoop(1, text) ELSE 0
    IN  IF hit # 0
        THEN [full_text |-> st.full_text \o SplitHead(text, reference_keywords[hit]),
              stop_extraction |-> TRUE]
        ELSE IF ~st.stop_extraction /\ ~opt
        THEN [full_text |-> st.full_text \o text, stop_extraction |-> FALSE]
        ELSE st

\* One iteration of the page loop on the locals st = [full_text, stop_extraction].
TextLoopBody(st, text, opt) ==
    LET hit == IF opt /\ ~st.stop_extraction THEN KeywordLoop(1, text) ELSE 0
    IN  IF hit # 0
        THEN [full_text |-> st.full_text \o SplitHead(text, reference_keywords[hit]),
              stop_extraction |-> TRUE]
        ELSE IF ~st.stop_extraction
        THEN [full_text |-> st.full_text \o text, stop_extraction |-> FALSE]
        ELSE st

\* The whole function on the pages from number k on.
RECURSIVE TextLoop(_, _, _, _)
TextLoop(st, doc, k, opt) ==
    IF k > Len(doc) THEN st
    ELSE TextLoop(TextLoopBody(st, doc[k].text, opt), doc, k + 1, opt)

extract_text_from_pdf(doc, opt) ==
    TextLoop([full_text |-> <<>>, stop_extraction |-> FALSE], doc, 1, opt).full_text

TextOpen ==
    /\ tpc = "call"
    /\ tdoc' = "open"
    /\ full_text' = <<>>
    /\ stop_extraction' = FALSE
    /\ ti' = 0
    /\ tpc' = "loop"
    /\ UNCHANGED <<pdf, optimize, figVars, flowVars>>

TextPage ==
    /\ tpc = "loop"
    /\ ti < Len(pdf)
    /\ LET st == TextLoopBody([full_text |-> full_text,
                               stop_extraction |-> stop_extraction],
                              pdf[ti + 1].text, optimize)
       IN  /\ full_text' = st.full_text
           /\ stop_extraction' = st.stop_extraction
    /\ ti' = ti + 1
    /\ UNCHANGED <<pdf, optimize, tpc, tdoc, figVars, flowVars>>

TextClose ==
    /\ tpc = "loop"
    /\ ti = Len(pdf)
    /\ tdoc' = "closed"
    /\ tpc' = "done"
    /\ UNCHANGED <<pdf, optimize, ti, full_text, stop_extraction, figVars, flowVars>>

(***************************************************************************)
(* The checked documents of the text extractor: up to MaxPages pages that  *)
(* share up to MaxFrags fragments, each a keyword or one character.        *)
(***************************************************************************)
TextFrags == {References, REFERENCES, Chamgomunheon, Bibliography,
              <<"a">>, <<" ">>, <<"\n">>}

SeqsUpTo(S, n) == UNION {[1..m -> S] : m \in 0..n}

\* The ways to cut a sequence of length len into n consecutive pieces: the
\* end positions of the pieces.
Cuts(n, len) ==
    {c \in [1..n -> 0..len] :
        /\ \A k \in 1..n : k > 1 => c[k - 1] <= c[k]
        /\ IF n = 0 THEN len = 0 ELSE c[n] = len}

Piece(s, c, k) == SubSeq(s, (IF k = 1 THEN 0 ELSE c[k - 1]) + 1, c[k])

TextPageOf(frags) == [text |-> Flatten(frags), blocks |-> <<>>, images |-> <<>>]

IsTextDoc(d) ==
    \E fs \in SeqsUpTo(TextFrags, MaxFrags) : \E n \in 0..MaxPages :
        \E c \in Cuts(n, Len(fs)) : d = [k \in 1..n |-> TextPageOf(Piece(fs, c, k))]

(***************************************************************************)
(* extract_key_figures.                                                    *)
(***************************************************************************)
UpperCase == <<"A", "B", "C", "D", "E", "F", "G", "H", "I", "J", "K", "L", "M",
               "N", "O", "P", "Q", "R", "S", "T", "U", "V", "W", "X", "Y", "Z">>
LowerCase == <<"a", "b", "c", "d", "e", "f", "g", "h", "i", "j", "k", "l", "m",
               "n", "o", "p", "q", "r", "s", "t", "u", "v", "w", "x", "y", "z">>

\* The character re.IGNORECASE compares c as.
Lower(c) ==
    IF \E k \in 1..Len(UpperCase) : UpperCase[k] = c
    THEN LowerCase[CHOOSE k \in 1..Len(UpperCase) : UpperCase[k] = c]
    ELSE c

IsDigit(c) == c \in {"0", "1", "2", "3", "4", "5", "6", "7", "8", "9"}

\* \s* from position k of s: the first position at or after k that holds no
\* whitespace (Len(s) + 1 when there is none).
RECURSIVE SkipSpaces(_, _)
SkipSpaces(s, k) ==
    IF k <= Len(s) /\ IsSpace(s[k]) THEN SkipSpaces(s, k + 1) ELSE k

\* word\s*\d+ matched at position k of s, letters compared without case.
LabelAt(s, k, word) ==
    /\ k + Len(word) - 1 <= Len(s)
    /\ \A m \in 1..Len(word) : Lower(s[k + m - 1]) = word[m]
    /\ LET d == SkipSpaces(s, k + Len(word))
       IN  d <= Len(s) /\ IsDigit(s[d])

\* re.search(r'Figure\s*\d+|Fig\.\s*\d+', s, re.IGNORECASE)
CaptionSearch(s) ==
    \E k \in 1..Len(s) :
        \/ LabelAt(s, k, <<"f", "i", "g", "u", "r", "e">>)
        \/ LabelAt(s, k, <<"f", "i", "g", ".">>)

\* The vertical gap under which a text block counts as lying just below an image.
CaptionGap == 70

Abs(x) == IF x < 0 THEN 0 - x ELSE x

\* CaptionLoop as it would be with the gap compared by <= instead of <.
RECURSIVE CaptionLoopInclusive(_, _, _, _)
CaptionLoopInclusive(tbs, k, y1, caption_candidate) ==
    IF k > Len(tbs) THEN caption_candidate
    ELSE CaptionLoopInclusive(tbs, k + 1, y1,
             IF tbs[k].y0 > y1 /\ Abs(tbs[k].y0 - y1) <= CaptionGap
             THEN caption_candidate \o tbs[k].text
             ELSE caption_candidate)

\* The for loop over text_blocks from block k on: caption_candidate.
RECURSIVE CaptionLoop(_, _, _, _)
CaptionLoop(tbs, k, y1, caption_candidate) ==
    IF k > Len(tbs) THEN caption_candidate
    ELSE CaptionLoop(tbs, k + 1, y1,
             IF tbs[k].y0 > y1 /\ Abs(tbs[k].y0 - y1) < CaptionGap
             THEN caption_candidate \o tbs[k].text
             ELSE caption_candidate)

\* doc.extract_image(xref)["image"]: the stored bytes of the image object.
ImageBytes(xref) == <<"image", xref>>

\* PagesToProcess as it would be if a single page were dropped too.
PagesToProcessDropsOnlyPage(doc, opt) ==
    LET all == [k \in 1..Len(doc) |-> k]
    IN  IF opt /\ Len(all) > 0 THEN Tail(all) ELSE all

\* pages_to_process, as page numbers.
PagesToProcess(doc, opt) ==
    LET all == [k \in 1..Len(doc) |-> k]
    IN  IF opt /\ Len(all) > 1 THEN Tail(all) ELSE all

FigOpen ==
    /\ fpc = "call"
    /\ fdoc' = "open"
    /\ key_figures' = <<>>
    /\ pages_to_process' = PagesToProcess(pdf, optimize)
    /\ fi' = 0
    /\ fpc' = "loop"
    /\ UNCHANGED <<pdf, optimize, text_blocks, images, fj, textVars, flowVars>>

\* The head of one page iteration: the page's blocks and images.
FigPage ==
    /\ fpc = "loop"
    /\ fi < Len(pages_to_process)
    /\ text_blocks' = pdf[pages_to_process[fi + 1]].blocks
    /\ images' = pdf[pages_to_process[fi + 1]].images
    /\ fj' = 1
    /\ fpc' = "image"
    /\ UNCHANGED <<pdf, optimize, fdoc, pages_to_process, fi, key_figures,
                   textVars, flowVars>>

\* One iteration of the image loop.  get_image_bbox and extract_image are
\* calls into the PDF library that fail on an unreadable image reference:
\* bbox_ok and image_ok say whether they succeed.  Nothing catches the
\* exception, so it leaves the function.
FigImage ==
    /\ fpc = "image"
    /\ fj <= Len(images)
    /\ \E bbox_ok \in BOOLEAN, image_ok \in BOOLEAN :
        LET img_info == images[fj]
            caption_candidate == CaptionLoop(text_blocks, 1, img_info.y1, <<>>)
            matched == bbox_ok /\ CaptionSearch(caption_candidate)
            raised == ~bbox_ok \/ (matched /\ ~image_ok)
        IN  /\ fpc' = IF raised THEN "raised" ELSE "image"
            /\ fj' = IF raised THEN fj ELSE fj + 1
            /\ key_figures' = IF matched /\ image_ok
                              THEN Append(key_figures, ImageBytes(img_info.xref))
                              ELSE key_figures
    /\ UNCHANGED <<pdf, optimize, fdoc, pages_to_process, fi, text_blocks, images,
                   textVars, flowVars>>

\* The end of one page iteration: the progress fraction (i + 1) / total.
FigProgress ==
    /\ fpc = "image"
    /\ fj > Len(images)
    /\ fpc' = IF Len(pages_to_process) = 0 THEN "raised" ELSE "loop"
    /\ fi' = fi + 1
    /\ UNCHANGED <<pdf, optimize, fdoc, pages_to_process, text_blocks, images, fj,
                   key_figures, textVars, flowVars>>

\* FigClose as it would be if a last progress update, pages done / total,
\* were made after the loop.
FigCloseAfterLastProgress ==
    /\ fpc = "loop"
    /\ fi = Len(pages_to_process)
    /\ fdoc' = IF Len(pages_to_process) = 0 THEN fdoc ELSE "closed"
    /\ fpc' = IF Len(pages_to_process) = 0 THEN "raised" ELSE "done"
    /\ UNCHANGED <<pdf, optimize, pages_to_process, fi, text_blocks, images, fj,
                   key_figures, textVars, flowVars>>

FigClose ==
    /\ fpc = "loop"
    /\ fi = Len(pages_to_process)
    /\ fdoc' = "closed"
    /\ fpc' = "done"
    /\ UNCHANGED <<pdf, optimize, pages_to_process, fi, text_blocks, images, fj,
                   key_figures, textVars, flowVars>>

(***************************************************************************)
(* The checked documents of the figure extractor: up to MaxPages pages     *)
(* that share up to MaxItems items, each a text block or an image.  The    *)
(* two images end at y = 300 and y = 310; the blocks start above, at, just *)
(* below and far below them.                                               *)
(***************************************************************************)
Figure1 == <<"F", "i", "g", "u", "r", "e", " ", "1">>
Table1  == <<"T", "a", "b", "l", "e", " ", "1">>
FigDot  == <<"f", "i", "g", ".">>
Two     == <<" ", "2">>

Block(y, t) == [kind |-> "block", y |-> y, text |-> t, xref |-> 0]
Image(x, y) == [kind |-> "image", y |-> y, text |-> <<>>, xref |-> x]

FigItems == {Block(330, Figure1), Block(330, Table1), Block(370, Figure1),
             Block(300, Figure1), Block(390, Figure1), Block(369, FigDot),
             Block(301, Two), Image(1, 300), Image(2, 310)}

RECURSIVE BlocksOf(_)
BlocksOf(items) ==
    IF items = <<>> THEN <<>>
    ELSE (IF Head(items).kind = "block"
          THEN <<[y0 |-> Head(items).y, text |-> Head(items).text]>>
          ELSE <<>>) \o BlocksOf(Tail(items))

RECURSIVE ImagesOf(_)
ImagesOf(items) ==
    IF items = <<>> THEN <<>>
    ELSE (IF Head(items).kind = "image"
          THEN <<[xref |-> Head(items).xref, y1 |-> Head(items).y]>>
          ELSE <<>>) \o ImagesOf(Tail(items))

FigPageOf(items) == [text |-> <<>>, blocks |-> BlocksOf(items), images |-> ImagesOf(items)]

IsFigDoc(d) ==
    \E is \in SeqsUpTo(FigItems, MaxItems) : \E n \in 0..MaxPages :
        \E c \in Cuts(n, Len(is)) : d = [k \in 1..n |-> FigPageOf(Piece(is, c, k))]

(***************************************************************************)
(* The analysis workflow (the script body under "if start_analysis").      *)
(***************************************************************************)
\* The least length of the trimmed text the workflow goes on with.
MinTextLen == 100

\* The button is pressed: the option checks, then the call of
\* extract_text_from_pdf(pdf_bytes, optimize=apply_optimization).
FlowStart ==
    /\ wpc = "idle"
    /\ tpc = "idle"
    /\ IF ~opts.summarize_paper_option /\ ~opts.extract_images_option
       THEN wpc' = "warning" /\ tpc' = tpc
       ELSE IF opts.summarize_paper_option /\ ~opts.api_key
       THEN wpc' = "error" /\ tpc' = tpc
       ELSE wpc' = "extract" /\ tpc' = "call"
    /\ UNCHANGED <<pdf, optimize, tdoc, ti, full_text, stop_extraction, figVars,
                   opts, extracted_text, extracted_images, calls>>

\* extract_text_from_pdf has returned: the test of the extracted text.
FlowCheck ==
    /\ wpc = "extract"
    /\ tpc = "done"
    /\ extracted_text' = full_text
    /\ wpc' = IF full_text = <<>> \/ Len(Strip(full_text)) < MinTextLen
              THEN "failed" ELSE "summarize"
    /\ UNCHANGED <<pdf, optimize, textVars, figVars, opts, extracted_images, calls>>

FlowSummarize ==
    /\ wpc = "summarize"
    /\ calls' = IF opts.summarize_paper_option
                THEN calls \cup {"summarize_paper_with_ai"} ELSE calls
    /\ wpc' = "figures"
    /\ UNCHANGED <<pdf, optimize, textVars, figVars, opts, extracted_text,
                   extracted_images>>

\* The call of extract_key_figures(pdf_bytes, optimize=apply_optimization).
FlowFigures ==
    /\ wpc = "figures"
    /\ IF opts.extract_images_option
       THEN /\ calls' = calls \cup {"extract_key_figures"}
            /\ fpc' = "call"
            /\ wpc' = "extracting"
       ELSE /\ calls' = calls
            /\ fpc' = fpc
            /\ wpc' = "results"
    /\ UNCHANGED <<pdf, optimize, textVars, fdoc, pages_to_process, fi, text_blocks,
                   images, fj, key_figures, opts, extracted_text, extracted_images>>

\* extract_key_figures has ended: its result, or its exception, which ends
\* the script run.
FlowFiguresEnd ==
    /\ wpc = "extracting"
    /\ fpc \in {"done", "raised"}
    /\ extracted_images' = IF fpc = "done" THEN key_figures ELSE extracted_images
    /\ wpc' = IF fpc = "done" THEN "results" ELSE "exception"
    /\ UNCHANGED <<pdf, optimize, textVars, figVars, opts, extracted_text, calls>>

\* The button of figure k in the figures tab is pressed.
FlowAnalyzeImage ==
    /\ wpc = "results"
    /\ opts.extract_images_option
    /\ opts.api_key
    /\ \E k \in 1..Len(extracted_images) :
           calls' = calls \cup {"analyze_image_with_ai"}
    /\ UNCHANGED <<pdf, optimize, textVars, figVars, wpc, opts, extracted_text,
                   extracted_images>>

(***************************************************************************)
(* The checked uploads of the workflow: one or two pages, the last with a  *)
(* text of runs of letters and blanks around the length MinTextLen, with   *)
(* or without a captioned image; and the document of no pages.             *)
(***************************************************************************)
RECURSIVE Rep(_, _)
Rep(c, n) == IF n = 0 THEN <<>> ELSE <<c>> \o Rep(c, n - 1)

FlowTexts ==
    {Rep(" ", s) \o Rep("a", n1) \o Rep(" ", n2) \o Rep("b", n3) :
        s \in {0, 1}, n1 \in {0, 1, 50, 99, 100}, n2 \in {0, 1, 98}, n3 \in {0, 1, 50}}

FlowPageFigures == {<<>>, <<Image(1, 300), Block(330, Figure1)>>,
                 <<Image(2, 310), Block(330, Table1)>>}

FlowPages ==
    {[text |-> t, blocks |-> BlocksOf(f), images |-> ImagesOf(f)] :
        t \in FlowTexts, f \in FlowPageFigures}

IsFlowDoc(d) ==
    \/ d = <<>>
    \/ \E p \in FlowPages : d = <<p>> \/ d = <<FigPageOf(<<>>), p>>

(***************************************************************************)
(* The specifications.                                                     *)
(***************************************************************************)
IdleText ==
    /\ tpc = "idle" /\ tdoc = "none" /\ ti = 0 /\ full_text = <<>>
    /\ stop_extraction = FALSE

IdleFig ==
    /\ fpc = "idle" /\ fdoc = "none" /\ pages_to_process = <<>> /\ fi = 0
    /\ text_blocks = <<>> /\ images = <<>> /\ fj = 0 /\ key_figures = <<>>

IdleFlow ==
    /\ wpc = "idle"
    /\ opts = [api_key |-> FALSE, summarize_paper_option |-> FALSE,
               extract_images_option |-> FALSE]
    /\ extracted_text = <<>> /\ extracted_images = <<>> /\ calls = {}

\* extract_text_from_pdf(pdf, optimize) is called.
InitText ==
    /\ IsTextDoc(pdf)
    /\ optimize \in BOOLEAN
    /\ tpc = "call" /\ tdoc = "none" /\ ti = 0 /\ full_text = <<>>
    /\ stop_extraction = FALSE
    /\ IdleFig
    /\ IdleFlow

\* extract_key_figures(pdf, optimize) is called.
InitFig ==
    /\ IsFigDoc(pdf)
    /\ optimize \in BOOLEAN
    /\ fpc = "call" /\ fdoc = "none" /\ pages_to_process = <<>> /\ fi = 0
    /\ text_blocks = <<>> /\ images = <<>> /\ fj = 0 /\ key_figures = <<>>
    /\ IdleText
    /\ IdleFlow

\* A file is uploaded and the options are set; the button is not yet pressed.
InitFlow ==
    /\ IsFlowDoc(pdf)
    /\ optimize \in BOOLEAN
    /\ wpc = "idle"
    /\ opts \in [api_key : BOOLEAN, summarize_paper_option : BOOLEAN,
                 extract_images_option : BOOLEAN]
    /\ extracted_text = <<>> /\ extracted_images = <<>> /\ calls = {}
    /\ IdleText
    /\ IdleFig

NextText == TextOpen \/ TextPage \/ TextClose

NextFig == FigOpen \/ FigPage \/ FigImage \/ FigProgress \/ FigClose

NextFlow ==
    \/ FlowStart \/ FlowCheck \/ FlowSummarize \/ FlowFigures \/ FlowFiguresEnd
    \/ FlowAnalyzeImage
    \/ NextText
    \/ NextFig

\* One call of extract_text_from_pdf.
SpecText == InitText /\ [][NextText]_vars

\* One call of extract_key_figures.
SpecFig == InitFig /\ [][NextFig]_vars

\* One call of either extractor.
Init == InitText \/ InitFig

Next == NextText \/ NextFig

Spec == Init /\ [][Next]_vars

\* One press of the button.
SpecFlow == InitFlow /\ [][NextFlow]_vars

(***************************************************************************)
(* What the claims speak of.                                               *)
(***************************************************************************)
\* The text of the first n pages of doc, in page order.
AllText(doc, n) == Flatten([k \in 1..n |-> doc[k].text])

\* Keyword number q stands at the start of a line of the trimmed text t.
IsHeading(t, q) == SearchLineStart(reference_keywords[q], Strip(t))

Keywords == 1..Len(reference_keywords)

\* The pages of doc that hold a reference heading.
HeadingPages(doc) == {p \in 1..Len(doc) : \E q \in Keywords : IsHeading(doc[p].text, q)}

\* No keyword occurs anywhere on any page of doc.
NoKeywordAnywhere(doc) ==
    \A p \in 1..Len(doc) : \A q \in Keywords : \A k \in 1..Len(doc[p].text) :
        ~OccursAt(doc[p].text, k, reference_keywords[q])

\* The positions of t where some keyword starts a line of the trimmed text.
HeadingStarts(t) ==
    {k \in 1..Len(t) :
        /\ \E q \in Keywords : OccursAt(t, k, reference_keywords[q])
        /\ \/ \A m \in 1..(k - 1) : IsSpace(t[m])
           \/ t[k - 1] = "\n"}

\* The caption candidate of image img on page pg: the texts, in block order,
\* of the blocks that start below the image's bottom edge by less than 70.
CaptionOf(pg, img) ==
    LET Near(tb) == 0 < tb.y0 - img.y1 /\ tb.y0 - img.y1 < 70
        near == SelectSeq(pg.blocks, Near)
    IN  Flatten([k \in 1..Len(near) |-> near[k].text])

Qualifies(pg, img) == CaptionSearch(CaptionOf(pg, img))

\* The bytes of the images of page pg that qualify, in image order.
PageFigures(pg) ==
    Flatten([j \in 1..Len(pg.images) |->
                IF Qualifies(pg, pg.images[j])
                THEN <<ImageBytes(pg.images[j].xref)>> ELSE <<>>])

\* The figures of the pages of doc from page number first on.
FiguresFrom(doc, first) ==
    Flatten([k \in 1..(Len(doc) + 1 - first) |-> PageFigures(doc[first + k - 1])])

\* The number of characters of s that are not whitespace.
NonSpaceCount(s) == Cardinality({k \in 1..Len(s) : ~IsSpace(s[k])})

(***************************************************************************)
(* The claims.                                                             *)
(***************************************************************************)
\* C1: with optimize = false, extract_text_from_pdf returns the texts of all
\* pages concatenated in page order, whatever the pages hold, and never sets
\* the stop flag.
C1_FullTextWithoutOptimize ==
    ~optimize =>
        /\ ~stop_extraction
        /\ tpc = "done" => full_text = AllText(pdf, Len(pdf))

\* A finished call without optimize on two pages, the first with a heading.
C1_Witness ==
    /\ tpc = "done" /\ ~optimize /\ Len(pdf) = 2
    /\ 1 \in HeadingPages(pdf)
    /\ pdf[1].text # Strip(pdf[1].text)
    /\ pdf[2].text # <<>>

\* C2: with optimize = true the result is the text of the pages before the
\* first page with a heading, then that page's untrimmed text up to the first
\* occurrence of the first keyword (in priority order) that heads a line of
\* it, and nothing after; with no such page it is the text of all pages.
C2_TruncatesAtFirstHeading ==
    (tpc = "done" /\ optimize) =>
        IF HeadingPages(pdf) = {}
        THEN full_text = AllText(pdf, Len(pdf))
        ELSE LET p == Min(HeadingPages(pdf))
                 t == pdf[p].text
                 q == Min({r \in Keywords : IsHeading(t, r)})
                 first == Min({k \in 1..Len(t) : OccursAt(t, k, reference_keywords[q])})
             IN  full_text = AllText(pdf, p - 1) \o SubSeq(t, 1, first - 1)

\* A finished call with optimize that kept page 1 and cut page 2 at a heading
\* that only the trimmed text shows at a line start, keeping what precedes it.
C2_Witness ==
    /\ tpc = "done" /\ optimize /\ Len(pdf) = 2
    /\ HeadingPages(pdf) = {2}
    /\ pdf[1].text # <<>>
    /\ full_text # pdf[1].text
    /\ full_text # AllText(pdf, 2)

\* C7: on a document without any keyword anywhere the call returns what the
\* function returns with the other value of optimize.
C7_OptimizeHasNoEffectWithoutKeyword ==
    (tpc = "done" /\ NoKeywordAnywhere(pdf)) =>
        full_text = extract_text_from_pdf(pdf, ~optimize)

\* A finished call with optimize on two non-empty pages without keywords.
C7_Witness ==
    /\ tpc = "done" /\ optimize /\ Len(pdf) = 2
    /\ NoKeywordAnywhere(pdf)
    /\ pdf[1].text # <<>> /\ pdf[2].text # <<>>

\* C10: when a page is cut, what is kept of it is its text before the
\* earliest position where any keyword starts a line.
C10_KeepsTextBeforeEarliestHeading ==
    (tpc = "done" /\ optimize /\ HeadingPages(pdf) # {}) =>
        LET p == Min(HeadingPages(pdf))
            t == pdf[p].text
        IN  full_text = AllText(pdf, p - 1) \o SubSeq(t, 1, Min(HeadingStarts(t)) - 1)

\* C3: the call returns, for the scanned pages in order, the bytes of exactly
\* the images whose caption candidate (the blocks of the same page that start
\* below the image by more than 0 and less than 70) matches the pattern.
C3_FiguresAreTheCaptionedImages ==
    fpc = "done" =>
        key_figures =
            Flatten([k \in 1..Len(pages_to_process) |->
                        PageFigures(pdf[pages_to_process[k]])])

\* A finished call that returned an image whose caption exists only as the
\* concatenation of two blocks, neither of which matches alone.
C3_Witness ==
    /\ fpc = "done" /\ Len(pdf) = 1 /\ Len(key_figures) = 1
    /\ Len(pdf[1].blocks) = 2
    /\ \A k \in 1..2 : ~CaptionSearch(pdf[1].blocks[k].text)

\* C4: a failing image is skipped: no exception leaves extract_key_figures
\* while an image is being processed.
C4_FailingImageIsSkipped == ~(fpc = "raised" /\ fj <= Len(images))

\* C5: a call that has ended, by return or by exception, has closed its
\* Document.
C5_DocumentClosedAtEnd ==
    /\ tpc = "done" => tdoc = "closed"
    /\ fpc \in {"done", "raised"} => fdoc = "closed"

\* C6: the pages are scanned in order, from page 2 when optimize is true and
\* there are two or more pages, from page 1 otherwise; in the first case
\* key_figures never holds an image that is not on a later page.
C6_FirstPageSkippedExactlyWhenOptimizing ==
    LET skip == optimize /\ Len(pdf) > 1
    IN  /\ skip =>
              \A k \in 1..Len(key_figures) :
                  \E p \in 2..Len(pdf) : \E j \in 1..Len(pdf[p].images) :
                      key_figures[k] = ImageBytes(pdf[p].images[j].xref)
        /\ fpc = "done" =>
              key_figures = FiguresFrom(pdf, IF skip THEN 2 ELSE 1)

\* A finished call with optimize on two pages whose first page holds a
\* captioned image that is not returned.
C6_Witness ==
    /\ fpc = "done" /\ optimize /\ Len(pdf) = 2
    /\ PageFigures(pdf[1]) # <<>>
    /\ key_figures = <<>>

\* C8: on a document without pages both extractors return an empty result
\* without an exception, and the progress fraction is not evaluated.
C8_EmptyDocument ==
    Len(pdf) = 0 =>
        /\ tpc = "done" => full_text = <<>>
        /\ fpc # "raised"
        /\ fpc # "image"
        /\ fpc = "done" => key_figures = <<>>

\* A finished call of extract_key_figures with optimize on no pages.
C8_Witness == Len(pdf) = 0 /\ fpc = "done" /\ optimize /\ fdoc = "closed"

\* C9: a downstream function is called only for an extracted text of at least
\* MinTextLen characters that are not whitespace.
C9_DownstreamNeedsEnoughText ==
    calls # {} => NonSpaceCount(extracted_text) >= MinTextLen

====
